---- MODULE Spec2Model ----
(***************************************************************************)
(* Model of market-health-cli: the resilient price download with its       *)
(* in-process cache (market_health/engine.py), the rating bands with       *)
(* hysteresis (market_ui.py, market_health/rating.py) and the category     *)
(* scorers assembled by compute_scores.                                    *)
(*                                                                         *)
(* A price table (pandas DataFrame) is represented by the number of its    *)
(* rows, the set of its column names, and the indicator readings pandas    *)
(* computes from it.                                                       *)
(***************************************************************************)
EXTENDS Integers, Sequences, FiniteSets, TLC

VARIABLES
    DOWNLOAD_CACHE,  \* engine._DOWNLOAD_CACHE: key -> (timestamp, frame)
    clock,           \* time.time(), in whole seconds
    pc,              \* position of safe_download
    call,            \* arguments of the running safe_download call, and its `now`
    i,               \* index of the symbol the for loop is at
    out,             \* safe_download's `out` mapping
    nattempt,        \* try_modes: number of strategies already attempted
    best_short,      \* try_modes: best_short
    ret,             \* value try_modes returned
    tried,           \* history: strategies attempted by the running try_modes
    accepted,        \* history: first valid table with >= 60 bars an attempt produced
    anyValid,        \* history: the running try_modes saw a valid non-empty table
    validSeen,       \* history: the longest valid table the running try_modes saw,
                     \* the earliest one of that length
    cache0,          \* history: _DOWNLOAD_CACHE when the running call started
    fetchedSyms,     \* history: symbols this call made an upstream call for
    failedSyms,      \* history: symbols whose every attempt failed in this call
    LAST_BANDS,      \* market_ui.LAST_BANDS: symbol -> last committed band
    args,            \* the command line of market_ui: hysteresis, rating scheme, quantiles
    grid,            \* the last render_pi_grid call: its cut points and its tiles
    clsIn,           \* a score and four cut points to classify
    clsOut,          \* what label_for and _band_index make of them
    uiPc,            \* position of the dataset loader of market_ui
    mode,            \* where the payload came from: compute_scores or a JSON file
    payload,         \* the list of sector objects: compute_scores' result or the parsed file
    sectorRows,      \* the SectorRows built from the payload
    asked,           \* history: the sectors compute_scores was called with, and the
                     \* ones safe_download had no table for
    fnIn,            \* the arguments of a function evaluated on its own
    fnOut,           \* its result
    outFile,         \* the files at args.out and args.out_csv: the pass whose
                     \* payload each holds and how much of that payload is in it
    wpc,             \* where mh_cli.main is
    passNo,          \* the pass _write_once is at
    cliArgs          \* args of mh_cli: watch and out_csv are set or not

fetchVars == <<DOWNLOAD_CACHE, clock, pc, call, i, out, nattempt, best_short,
               ret, tried, accepted, anyValid, validSeen, cache0, fetchedSyms,
               failedSyms>>

ratingVars == <<LAST_BANDS, args, grid>>

classifyVars == <<clsIn, clsOut>>

scoreVars == <<uiPc, mode, payload, sectorRows, asked>>

pureVars == <<fnIn, fnOut>>

writeVars == <<outFile, wpc, passNo, cliArgs>>

vars == <<fetchVars, ratingVars, classifyVars, scoreVars, pureVars, writeVars>>

Max(a, b) == IF a >= b THEN a ELSE b

Min(a, b) == IF a <= b THEN a ELSE b

(***************************************************************************)
(* Bounds of the model.                                                    *)
(***************************************************************************)
MaxClock == 1

MaxSymbols == 2

MaxTtl == 2

(***************************************************************************)
(* Price tables.                                                           *)
(***************************************************************************)
MIN_BARS == 60

NUM_MODES == 6

Symbols == {"XLK", "SPY"}

Periods == {"1y"}

Intervals == {"1d"}

TtlValues == {-1, 0, MaxTtl}

Keys == Symbols \X Periods \X Intervals

\* pd.DataFrame(): no rows, no columns
EmptyFrame == [len |-> 0, cols |-> {}]

\* Python's None where a table is expected
NoFrame == [len |-> -1, cols |-> {}]

\* _DOWNLOAD_CACHE.get(key) when the key is absent
NoEntry == [ts |-> -1, frame |-> NoFrame]

\* frame.empty: an axis of length 0
IsEmpty(frame) == frame.len = 0 \/ frame.cols = {}

\* str.title() on the column names an upstream table can carry
Title(c) ==
    CASE c = "close" -> "Close"
      [] c = "open" -> "Open"
      [] c = "high" -> "High"
      [] c = "low" -> "Low"
      [] c = "volume" -> "Volume"
      [] c = "adj close" -> "Adj Close"
      [] OTHER -> c

\* column sets of the tables the upstream source returns
RawCols == { {"open", "high", "low", "close", "volume"},
             {"Price"} }

\* row counts of the tables the upstream source returns; nan counts the rows
\* whose every cell is NaN
RawFrames ==
    { [rows |-> r, nan |-> n, cols |-> c] : r \in {0, 1, MIN_BARS}, n \in {0, 1}, c \in RawCols }
    \cup { [rows |-> MIN_BARS, nan |-> 1, cols |-> {"adj close", "volume"}] }

normalize_cols(raw) ==
    IF raw.rows = 0 \/ raw.cols = {}
    THEN EmptyFrame
    ELSE [len |-> Max(0, raw.rows - raw.nan),
          cols |-> { Title(c) : c \in raw.cols }]

first_valid(frame) ==
    IF frame = NoFrame \/ IsEmpty(frame)
    THEN FALSE
    ELSE \E c \in {"Close", "Adj Close"} : c \in frame.cols

\* the strategy list of try_modes for a call's period and interval
modes(period, interval) ==
    << [fn |-> "download", auto_adjust |-> FALSE, period |-> period, interval |-> interval],
       [fn |-> "download", auto_adjust |-> TRUE, period |-> period, interval |-> interval],
       [fn |-> "history", auto_adjust |-> FALSE, period |-> period, interval |-> interval],
       [fn |-> "history", auto_adjust |-> TRUE, period |-> period, interval |-> interval],
       [fn |-> "download", auto_adjust |-> TRUE, period |-> "6mo", interval |-> interval],
       [fn |-> "history", auto_adjust |-> TRUE, period |-> "6mo", interval |-> interval] >>

(***************************************************************************)
(* Errors an upstream call can raise, each with the classes it is an       *)
(* instance of.                                                            *)
(***************************************************************************)
Bases(exc) ==
    CASE exc = "ConnectionError" -> {"ConnectionError", "OSError", "Exception"}
      [] exc = "Timeout" -> {"Timeout", "RequestException", "OSError", "Exception"}
      [] exc = "JSONDecodeError" -> {"JSONDecodeError", "ValueError", "Exception"}
      [] exc = "KeyError" -> {"KeyError", "LookupError", "Exception"}
      [] exc = "IndexError" -> {"IndexError", "LookupError", "Exception"}
      [] exc = "AttributeError" -> {"AttributeError", "Exception"}
      [] OTHER -> {exc}

Raisable == {"ConnectionError", "Timeout", "JSONDecodeError", "KeyError",
             "IndexError", "AttributeError"}

\* the except clause of try_modes
CaughtClasses == {"ValueError", "KeyError", "TypeError", "RuntimeError", "OSError",
                  "ConnectionError"}

IsCaught(exc) == Bases(exc) \cap CaughtClasses # {}

\* what one upstream call (yf.download or Ticker.history) can do
Outcomes ==
    { [kind |-> "frame", raw |-> r, exc |-> "-"] : r \in RawFrames }
    \cup { [kind |-> "none", raw |-> [rows |-> 0, nan |-> 0, cols |-> {}], exc |-> "-"] }
    \cup { [kind |-> "raise", raw |-> [rows |-> 0, nan |-> 0, cols |-> {}], exc |-> e] :
             e \in Raisable }

(***************************************************************************)
(* safe_download                                                           *)
(***************************************************************************)
KeyOf(tk) == <<tk, call.period, call.interval>>

\* IsFresh with the age compared one second short
IsFresh_short(cached, now, ttl_sec) ==
    cached # NoEntry /\ now - cached.ts < Max(1, ttl_sec) - 1

\* the test of line 258: a cached tuple is truthy whenever the key is present
IsFresh(cached, now, ttl_sec) ==
    cached # NoEntry /\ now - cached.ts < Max(1, ttl_sec)

\* Accepts with a strict comparison
Accepts_strict(frame) == frame.len > MIN_BARS

\* the test of line 246
Accepts(frame) == frame.len >= MIN_BARS

\* BetterShort that lets a table of the same length take over
BetterShort_latest(frame, best) == best = NoFrame \/ frame.len >= best.len

\* the update of line 247
BetterShort(frame, best) == best = NoFrame \/ frame.len > best.len

\* the except clause of line 248
Swallows(exc) == IsCaught(exc)

\* Fallback that never uses the cached table
Fallback_none(frame, cached) == frame

\* the table line 262 keeps: the fetched one, or the cached one when it is empty
Fallback(frame, cached) ==
    IF (frame = NoFrame \/ IsEmpty(frame)) /\ cached # NoEntry
    THEN cached.frame
    ELSE frame

\* CacheWrite that records successful fetches only
CacheWrite_nonempty(cache, key, now, frame) ==
    IF frame = NoFrame \/ IsEmpty(frame)
    THEN cache
    ELSE [cache EXCEPT ![key] = [ts |-> now, frame |-> frame]]

\* CacheWrite that stamps every key of the cache
CacheWrite_all(cache, key, now, frame) ==
    [k \in DOMAIN cache |-> [ts |-> now, frame |-> IF frame # NoFrame THEN frame ELSE EmptyFrame]]

\* the cache write of line 263
CacheWrite(cache, key, now, frame) ==
    [cache EXCEPT ![key] = [ts |-> now, frame |-> IF frame # NoFrame THEN frame ELSE EmptyFrame]]

\* the requested symbols: compute_scores passes list(set(...)), without duplicates
SymbolLists ==
    { q \in UNION { [1..n -> Symbols] : n \in 1..MaxSymbols } :
        \A a, b \in DOMAIN q : a # b => q[a] # q[b] }

FetchInit ==
    /\ DOWNLOAD_CACHE = [k \in Keys |-> NoEntry]
    /\ clock = 0
    /\ pc = "idle"
    /\ call = [symbols |-> <<>>, period |-> "1y", interval |-> "1d", ttl_sec |-> 0, now |-> 0]
    /\ i = 0
    /\ out = [s \in Symbols |-> NoFrame]
    /\ nattempt = 0
    /\ best_short = NoFrame
    /\ ret = NoFrame
    /\ tried = <<>>
    /\ accepted = NoFrame
    /\ anyValid = FALSE
    /\ validSeen = NoFrame
    /\ cache0 = [k \in Keys |-> NoEntry]
    /\ fetchedSyms = {}
    /\ failedSyms = {}

\* time passes: the sleeps, the blocking calls, the pause between two calls
Tick ==
    /\ pc \in {"idle", "returned", "fetched"}
    /\ clock < MaxClock
    /\ clock' = clock + 1
    /\ UNCHANGED <<ratingVars, classifyVars, scoreVars, pureVars, writeVars>>
    /\ UNCHANGED <<DOWNLOAD_CACHE, pc, call, i, out, nattempt, best_short, ret,
                   tried, accepted, anyValid, validSeen, cache0, fetchedSyms,
                   failedSyms>>

\* safe_download(symbols, period, interval, ttl_sec) is entered: lines 253-254
StartCall ==
    /\ pc \in {"idle", "returned"}
    /\ \E syms \in SymbolLists, p \in Periods, iv \in Intervals, ttl \in TtlValues :
          call' = [symbols |-> syms, period |-> p, interval |-> iv, ttl_sec |-> ttl,
                   now |-> clock]
    /\ i' = 1
    /\ out' = [s \in Symbols |-> NoFrame]
    /\ pc' = "loop"
    /\ cache0' = DOWNLOAD_CACHE
    /\ fetchedSyms' = {}
    /\ failedSyms' = {}
    /\ UNCHANGED <<ratingVars, classifyVars, scoreVars, pureVars, writeVars>>
    /\ UNCHANGED <<DOWNLOAD_CACHE, clock, nattempt, best_short, ret, tried, accepted,
                   anyValid, validSeen>>

\* lines 256-260: the symbol is served from the cache
CacheHit ==
    /\ pc = "loop"
    /\ i <= Len(call.symbols)
    /\ LET tk == call.symbols[i]
           cached == DOWNLOAD_CACHE[KeyOf(tk)]
       IN /\ IsFresh(cached, call.now, call.ttl_sec)
          /\ out' = [out EXCEPT ![tk] = cached.frame]
    /\ i' = i + 1
    /\ UNCHANGED <<ratingVars, classifyVars, scoreVars, pureVars, writeVars>>
    /\ UNCHANGED <<DOWNLOAD_CACHE, clock, pc, call, nattempt, best_short, ret,
                   tried, accepted, anyValid, validSeen, cache0, fetchedSyms,
                   failedSyms>>

\* lines 256-261: no fresh entry, try_modes is entered
CacheMiss ==
    /\ pc = "loop"
    /\ i <= Len(call.symbols)
    /\ ~IsFresh(DOWNLOAD_CACHE[KeyOf(call.symbols[i])], call.now, call.ttl_sec)
    /\ pc' = "try"
    /\ nattempt' = 0
    /\ best_short' = NoFrame
    /\ ret' = NoFrame
    /\ tried' = <<>>
    /\ accepted' = NoFrame
    /\ anyValid' = FALSE
    /\ validSeen' = NoFrame
    /\ UNCHANGED <<ratingVars, classifyVars, scoreVars, pureVars, writeVars>>
    /\ UNCHANGED <<DOWNLOAD_CACHE, clock, call, i, out, cache0, fetchedSyms,
                   failedSyms>>

\* try_modes leaves its loop after the last strategy: line 251
AfterAttempt(n, best) ==
    IF n = NUM_MODES
    THEN /\ pc' = "fetched"
         /\ ret' = IF best # NoFrame THEN best ELSE EmptyFrame
    ELSE /\ pc' = "try"
         /\ ret' = ret

\* one pass of the loop of try_modes: lines 234-250
Attempt ==
    /\ pc = "try"
    /\ nattempt < NUM_MODES
    /\ LET tk == call.symbols[i]
           m == modes(call.period, call.interval)[nattempt + 1]
       IN /\ tried' = Append(tried, m)
          /\ fetchedSyms' = fetchedSyms \cup {tk}
          /\ \E o \in Outcomes :
                LET frame == normalize_cols(o.raw)
                    valid == o.kind # "raise" /\ first_valid(frame)
                IN /\ anyValid' = (anyValid \/ valid)
                   /\ validSeen' = IF valid /\ (validSeen = NoFrame \/ frame.len > validSeen.len)
                                   THEN frame ELSE validSeen
                   /\ accepted' = IF valid /\ frame.len >= 60 THEN frame ELSE accepted
                   /\ IF o.kind = "raise"
                      THEN IF Swallows(o.exc)
                           THEN /\ nattempt' = nattempt + 1
                                /\ best_short' = best_short
                                /\ AfterAttempt(nattempt + 1, best_short)
                           ELSE /\ pc' = "raised"
                                /\ UNCHANGED <<nattempt, best_short, ret>>
                      ELSE IF ~first_valid(frame)
                           THEN /\ nattempt' = nattempt + 1
                                /\ best_short' = best_short
                                /\ AfterAttempt(nattempt + 1, best_short)
                           ELSE IF Accepts(frame)
                                THEN /\ pc' = "fetched"
                                     /\ ret' = frame
                                     /\ UNCHANGED <<nattempt, best_short>>
                                ELSE LET best == IF BetterShort(frame, best_short)
                                                 THEN frame ELSE best_short
                                     IN /\ nattempt' = nattempt + 1
                                        /\ best_short' = best
                                        /\ AfterAttempt(nattempt + 1, best)
    /\ UNCHANGED <<ratingVars, classifyVars, scoreVars, pureVars, writeVars>>
    /\ UNCHANGED <<DOWNLOAD_CACHE, clock, call, i, out, cache0, failedSyms>>

\* lines 262-265: fall back to the cached table, write the cache, fill out
Store ==
    /\ pc = "fetched"
    /\ LET tk == call.symbols[i]
           key == KeyOf(tk)
           frame == Fallback(ret, DOWNLOAD_CACHE[key])
           cache1 == CacheWrite(DOWNLOAD_CACHE, key, clock, frame)
       IN /\ DOWNLOAD_CACHE' = cache1
          /\ out' = [out EXCEPT ![tk] = cache1[key].frame]
          /\ failedSyms' = IF ~anyValid THEN failedSyms \cup {tk} ELSE failedSyms \ {tk}
    /\ i' = i + 1
    /\ pc' = "loop"
    /\ UNCHANGED <<ratingVars, classifyVars, scoreVars, pureVars, writeVars>>
    /\ UNCHANGED <<clock, call, nattempt, best_short, ret, tried, accepted,
                   anyValid, validSeen, cache0, fetchedSyms>>

\* line 266
Return ==
    /\ pc = "loop"
    /\ i > Len(call.symbols)
    /\ pc' = "returned"
    /\ UNCHANGED <<ratingVars, classifyVars, scoreVars, pureVars, writeVars>>
    /\ UNCHANGED <<DOWNLOAD_CACHE, clock, call, i, out, nattempt, best_short, ret,
                   tried, accepted, anyValid, validSeen, cache0, fetchedSyms,
                   failedSyms>>

(***************************************************************************)
(* Properties of safe_download.                                            *)
(***************************************************************************)
Requested == { call.symbols[k] : k \in 1..Len(call.symbols) }

\* the symbols the for loop is done with
Processed == { call.symbols[k] : k \in 1..Min(i - 1, Len(call.symbols)) }

\* the entry the key of s held when the running call started
EntryAtCall(s) == cache0[KeyOf(s)]

\* an entry younger than ttl seconds at the time of the call
YoungerThanTtl(e) == e # NoEntry /\ call.now - e.ts < call.ttl_sec

\* C1: a requested symbol whose cache entry is younger than ttl seconds when
\* safe_download is called gets no upstream call, and the call returns exactly
\* the cached series for it.
C1_CacheHit ==
    \A s \in Requested :
        YoungerThanTtl(EntryAtCall(s)) =>
            /\ s \notin fetchedSyms
            /\ s \in Processed => out[s] = EntryAtCall(s).frame
            /\ pc = "returned" => out[s] = EntryAtCall(s).frame

C1_Witness ==
    /\ pc = "returned"
    /\ \E s \in Requested :
          /\ YoungerThanTtl(EntryAtCall(s))
          /\ ~IsEmpty(EntryAtCall(s).frame)
          /\ out[s] = EntryAtCall(s).frame
    /\ fetchedSyms # {}

\* C25: only the fetch writes the cache, and only the key of the symbol it
\* fetched: a step of safe_download changes an entry only when it stores the
\* table fetched for the requested symbol of that key, a symbol served from a
\* fresh entry leaves that entry and its timestamp as they were, and no entry
\* is ever removed.
C25_OnlyFetchWrites ==
    [][/\ \A k \in Keys :
            /\ DOWNLOAD_CACHE[k] # NoEntry => DOWNLOAD_CACHE'[k] # NoEntry
            /\ DOWNLOAD_CACHE'[k] # DOWNLOAD_CACHE[k] =>
                   /\ pc = "fetched"
                   /\ k[1] \in Requested \cap fetchedSyms
                   /\ k = KeyOf(call.symbols[i])
                   /\ out'[k[1]] = DOWNLOAD_CACHE'[k].frame
       /\ (pc = "loop" /\ pc' = "loop" /\ i' = i + 1) =>
              /\ DOWNLOAD_CACHE' = DOWNLOAD_CACHE
              /\ out'[call.symbols[i]] = DOWNLOAD_CACHE[KeyOf(call.symbols[i])].frame
       /\ \A u \in Processed \ fetchedSyms :
              DOWNLOAD_CACHE'[KeyOf(u)] = EntryAtCall(u) \/ call' # call]_vars

C25_Witness ==
    /\ pc = "returned"
    /\ \E u \in Requested, k \in Keys :
          /\ u \in fetchedSyms
          /\ EntryAtCall(u) # NoEntry
          /\ DOWNLOAD_CACHE[KeyOf(u)] # EntryAtCall(u)
          /\ k[1] \notin Requested
          /\ cache0[k] # NoEntry
          /\ ~IsEmpty(cache0[k].frame)
          /\ DOWNLOAD_CACHE[k] = cache0[k]

\* C24: when no attempt for a symbol returns 60 or more bars but at least one
\* returns a valid non-empty table, try_modes returns a table whose length is
\* the maximum over all valid attempts, the earliest one on equal lengths, and
\* that short table is used rather than any cached entry.
C24_BestShort ==
    (pc \in {"fetched", "loop"} /\ i >= 1 /\ accepted = NoFrame /\ anyValid) =>
        /\ ret = validSeen
        /\ (/\ pc = "loop"
            /\ i > 1
            /\ call.symbols[i - 1] \in fetchedSyms) =>
               /\ out[call.symbols[i - 1]] = ret
               /\ DOWNLOAD_CACHE[KeyOf(call.symbols[i - 1])].frame = ret

C24_Witness ==
    /\ pc = "loop"
    /\ i = 2
    /\ call.symbols[1] \in fetchedSyms
    /\ accepted = NoFrame
    /\ Len(tried) = NUM_MODES
    /\ ret.len = 59
    /\ ret.cols = {"Adj Close", "Volume"}
    /\ EntryAtCall(call.symbols[1]) # NoEntry
    /\ EntryAtCall(call.symbols[1]).frame.len = 60
    /\ out[call.symbols[1]] = ret

\* C23: for every ttl, 0 and negative values included, a symbol is served from
\* the cache without an upstream attempt only if now - fetchTimestamp < ttl
\* holds for the entry of its key.
C23_ReusedOnlyWhileFresh ==
    \A s \in Processed :
        s \notin fetchedSyms =>
            /\ EntryAtCall(s) # NoEntry
            /\ call.now - EntryAtCall(s).ts < call.ttl_sec

\* C6: when every fetch attempt for a symbol failed, safe_download returns the
\* series of the cache entry the key had, however old, and an empty series when
\* the key had no entry.
C6_StaleFallback ==
    \A s \in failedSyms :
        out[s] = IF EntryAtCall(s) # NoEntry THEN EntryAtCall(s).frame ELSE EmptyFrame

C6_Witness ==
    /\ pc = "returned"
    /\ \E s \in failedSyms :
          /\ EntryAtCall(s) # NoEntry
          /\ call.now - EntryAtCall(s).ts >= Max(1, call.ttl_sec)
          /\ ~IsEmpty(EntryAtCall(s).frame)
          /\ out[s] = EntryAtCall(s).frame

\* C7: no error of an upstream call escapes safe_download: the call never
\* raises, and when it returns, out holds an entry for every requested symbol.
C7_NoErrorEscapes ==
    /\ pc # "raised"
    /\ pc = "returned" => \A s \in Requested : out[s] # NoFrame

\* C8: after a symbol was fetched (not served from the cache) the cache holds an
\* entry for its key, stamped during that fetch and holding the returned
\* series, an empty one included; and a call that finds such an entry of a
\* failed fetch within ttl seconds makes no upstream call for the symbol.
C8_FailureCached ==
    /\ \A s \in Processed \cap fetchedSyms :
          LET e == DOWNLOAD_CACHE[KeyOf(s)]
          IN /\ e # NoEntry
             /\ e.frame = out[s]
             /\ call.now <= e.ts /\ e.ts <= clock
    /\ \A s \in Requested :
          (YoungerThanTtl(EntryAtCall(s)) /\ IsEmpty(EntryAtCall(s).frame)) =>
              s \notin fetchedSyms

C8_Witness ==
    /\ pc = "returned"
    /\ \E s \in Requested :
          /\ YoungerThanTtl(EntryAtCall(s))
          /\ EntryAtCall(s).frame = EmptyFrame
          /\ s \notin fetchedSyms
          /\ out[s] = EmptyFrame

\* C9: the strategies are attempted in list order, the primary-period ones
\* before the two 6-month ones, at most six per symbol; the first attempt that
\* yields a valid table of at least 60 bars ends the loop and is what try_modes
\* returns.
C9_EarlyAcceptance ==
    /\ Len(tried) <= 6
    /\ \A k \in 1..Len(tried) : tried[k] = modes(call.period, call.interval)[k]
    /\ \A k \in 1..Len(tried) : (tried[k].period = "6mo" /\ call.period # "6mo") <=> k >= 5
    /\ accepted # NoFrame => (pc # "try" /\ ret = accepted)

C9_Witness ==
    /\ pc = "fetched"
    /\ accepted # NoFrame
    /\ Len(tried) = 3


(***************************************************************************)
(* Rating bands: market_ui.render_pi_grid and market_health/rating.py      *)
(***************************************************************************)
\* a row attribute that is absent (hasattr is false) or None
NoAttr == -1

\* LAST_BANDS has no entry for the symbol
NoBand == -1

LABELS == << <<"Strong Sell", "SS">>, <<"Sell", "S">>, <<"Hold", "H">>,
             <<"Buy", "B">>, <<"Strong Buy", "SB">> >>

Sectors == {"XLK", "XLF"}

Schemes == {"fixed", "quantile", "hybrid"}

\* the --hysteresis values the model runs with
HysteresisValues == {0, 1, 5, 10}

\* the scores of the rows: every multiple of 5 with its two neighbours
ScoreGrid == { v \in 0..100 : v % 5 \in {0, 1, 4} }

\* the scores of the rows of a grid of two
PairedScores == {15, 55, 95}

PeerScores == {30, 70}

\* round(a / b) as Python rounds: to the nearest integer, a half to the even one
PyRound(a, b) ==
    LET q == a \div b
        r == a % b
    IN IF 2 * r < b THEN q
       ELSE IF 2 * r > b THEN q + 1
       ELSE IF q % 2 = 0 THEN q ELSE q + 1

RECURSIVE Insert(_, _)
Insert(x, xs) ==
    IF xs = <<>> THEN <<x>>
    ELSE IF x <= Head(xs) THEN <<x>> \o xs
    ELSE <<Head(xs)>> \o Insert(x, Tail(xs))

RECURSIVE Sorted(_)
\* sorted(vals)
Sorted(vals) == IF vals = <<>> THEN <<>> ELSE Insert(Head(vals), Sorted(Tail(vals)))

_fixed_bounds == <<20, 40, 60, 80>>

_quantile_bounds(vals, qs) ==
    LET keep(v) == v # NoAttr
        xs == Sorted(SelectSeq(vals, keep))
        pct_fn(p) == xs[Max(0, Min(Len(xs) - 1, PyRound(p * (Len(xs) - 1), 100))) + 1]
    IN IF xs = <<>> THEN _fixed_bounds
       ELSE [k \in 1..Len(qs) |-> pct_fn(qs[k])]

_choose_bounds(vals, scheme, qs, guard) ==
    LET f == _fixed_bounds
        qb == _quantile_bounds(vals, qs)
    IN IF scheme = "fixed" THEN f
       ELSE IF scheme = "quantile" THEN qb
       ELSE [k \in 1..4 |-> Max(f[k] - guard, Min(f[k] + guard, qb[k]))]

\* rating.py: fixed_bounds()
fixed_bounds == <<20, 40, 60, 80>>

\* quantile_bounds taking the index below p/100*(n-1) instead of the nearest
quantile_bounds_floor(scores, qs) ==
    LET keep(v) == v # NoAttr
        xs == Sorted(SelectSeq(scores, keep))
        pct(p) == xs[Max(0, Min(Len(xs) - 1, (p * (Len(xs) - 1)) \div 100)) + 1]
    IN IF xs = <<>> THEN fixed_bounds
       ELSE [k \in 1..Len(qs) |-> pct(qs[k])]

\* rating.py: quantile_bounds(scores, qs); a score that is None is NoAttr.
\* (p / 100) * (len(xs) - 1) is a float product; below 46 scores it rounds as
\* the exact quotient does.
quantile_bounds(scores, qs) ==
    LET keep(v) == v # NoAttr
        xs == Sorted(SelectSeq(scores, keep))
        pct(p) == xs[Max(0, Min(Len(xs) - 1, PyRound(p * (Len(xs) - 1), 100))) + 1]
    IN IF xs = <<>> THEN fixed_bounds
       ELSE [k \in 1..Len(qs) |-> pct(qs[k])]

\* choose_bounds whose scheme fixed returns the quantile bounds
choose_bounds_unfixed(scores, scheme, qs, guard) ==
    LET f == fixed_bounds
        qb == quantile_bounds(scores, qs)
    IN IF scheme \in {"fixed", "quantile"} THEN qb
       ELSE [k \in 1..Min(4, Len(qb)) |-> Max(f[k] - guard, Min(f[k] + guard, qb[k]))]

\* choose_bounds whose scheme hybrid clamps from above only
choose_bounds_halfclamped(scores, scheme, qs, guard) ==
    LET f == fixed_bounds
        qb == quantile_bounds(scores, qs)
    IN IF scheme = "fixed" THEN f
       ELSE IF scheme = "quantile" THEN qb
       ELSE [k \in 1..Min(4, Len(qb)) |-> Min(f[k] + guard, qb[k])]

\* rating.py: choose_bounds(scores, scheme, qs, guard)
choose_bounds(scores, scheme, qs, guard) ==
    LET f == fixed_bounds
        qb == quantile_bounds(scores, qs)
    IN IF scheme = "fixed" THEN f
       ELSE IF scheme = "quantile" THEN qb
       ELSE [k \in 1..Min(4, Len(qb)) |-> Max(f[k] - guard, Min(f[k] + guard, qb[k]))]

\* _band_index with closed upper ends
_band_index_closed(score_val, cuts) ==
    IF score_val <= cuts[1] THEN 0
    ELSE IF score_val <= cuts[2] THEN 1
    ELSE IF score_val <= cuts[3] THEN 2
    ELSE IF score_val <= cuts[4] THEN 3
    ELSE 4

_band_index(score_val, cuts) ==
    IF score_val < cuts[1] THEN 0
    ELSE IF score_val < cuts[2] THEN 1
    ELSE IF score_val < cuts[3] THEN 2
    ELSE IF score_val < cuts[4] THEN 3
    ELSE 4

\* rating.label_for: the Rating (label, short, (lo, hi)) of a score
label_for(score, bounds) ==
    LET idx == IF score < bounds[1] THEN 0
               ELSE IF score < bounds[2] THEN 1
               ELSE IF score < bounds[3] THEN 2
               ELSE IF score < bounds[4] THEN 3
               ELSE 4
        lo == << 0, bounds[1], bounds[2], bounds[3], bounds[4] >>[idx + 1]
        hi == << bounds[1] - 1, bounds[2] - 1, bounds[3] - 1, bounds[4] - 1, 100 >>[idx + 1]
    IN [label |-> LABELS[idx + 1][1], short |-> LABELS[idx + 1][2], band |-> <<lo, hi>>]

\* _get_pct: the first of pct, score, percent, value the row has; a SectorRow
\* has none of them
_get_pct(row) ==
    LET has(attr) == attr \in DOMAIN row /\ row[attr] # NoAttr
    IN IF has("pct") THEN row.pct
       ELSE IF has("score") THEN row.score
       ELSE IF has("percent") THEN row.percent
       ELSE IF has("value") THEN row.value
       ELSE 0

_lower_of_band(b, cut_points) == IF b = 0 THEN 0 ELSE cut_points[b]

\* MoveUpOk with a strict comparison
MoveUpOk_strict(pct_val, raw_band, cut_points, hysteresis) ==
    pct_val > _lower_of_band(raw_band, cut_points) + hysteresis

\* lines 338-339: the score clears the lower bound of the new band
MoveUpOk(pct_val, raw_band, cut_points, hysteresis) ==
    pct_val >= _lower_of_band(raw_band, cut_points) + hysteresis

\* MoveDownOk with the boundary score included
MoveDownOk_inclusive(pct_val, last, cut_points, hysteresis) ==
    pct_val <= _lower_of_band(last, cut_points) - hysteresis

\* lines 343-344: the score drops under the lower bound of the current band
MoveDownOk(pct_val, last, cut_points, hysteresis) ==
    pct_val < _lower_of_band(last, cut_points) - hysteresis

\* CommitBand that moves one band towards the raw band when the move is refused
CommitBand_step(pct_val, last, cut_points, hysteresis) ==
    LET raw_band == _band_index(pct_val, cut_points)
    IN IF hysteresis # 0 /\ last # NoBand
       THEN IF raw_band > last
            THEN IF MoveUpOk(pct_val, raw_band, cut_points, hysteresis)
                 THEN raw_band ELSE raw_band - 1
            ELSE IF raw_band < last
                 THEN IF MoveDownOk(pct_val, last, cut_points, hysteresis)
                      THEN raw_band ELSE raw_band + 1
                 ELSE last
       ELSE raw_band

\* lines 330-348: the band a tile commits
CommitBand(pct_val, last, cut_points, hysteresis) ==
    LET raw_band == _band_index(pct_val, cut_points)
    IN IF hysteresis # 0 /\ last # NoBand
       THEN IF raw_band > last
            THEN IF MoveUpOk(pct_val, raw_band, cut_points, hysteresis)
                 THEN raw_band ELSE last
            ELSE IF raw_band < last
                 THEN IF MoveDownOk(pct_val, last, cut_points, hysteresis)
                      THEN raw_band ELSE last
                 ELSE last
       ELSE raw_band

RECURSIVE Tiles(_, _, _, _, _)
\* the loop of lines 328-350 from row k on: the tiles it builds and LAST_BANDS after it
Tiles(rows, k, cut_points, hysteresis, bands) ==
    IF k > Len(rows)
    THEN [bands |-> bands, evals |-> <<>>]
    ELSE LET sym == rows[k].symbol
             pct_val == _get_pct(rows[k])
             band_idx == CommitBand(pct_val, bands[sym], cut_points, hysteresis)
             rest == Tiles(rows, k + 1, cut_points, hysteresis,
                           [bands EXCEPT ![sym] = band_idx])
             tile == [sym |-> sym, pct |-> pct_val,
                      raw |-> _band_index(pct_val, cut_points),
                      last |-> bands[sym], band |-> band_idx,
                      short |-> LABELS[band_idx + 1][2]]
         IN [bands |-> rest.bands, evals |-> <<tile>> \o rest.evals]

\* the rows a grid is rendered from
RowLists ==
    { << [symbol |-> "XLK", pct |-> p] >> : p \in ScoreGrid \cup {NoAttr} }
    \cup { << [symbol |-> "XLK", pct |-> p], [symbol |-> "XLF", pct |-> q] >> :
             p \in PairedScores, q \in PeerScores }

RatingParked ==
    /\ LAST_BANDS = [s \in Sectors |-> NoBand]
    /\ args = [hysteresis |-> 0, rating_scheme |-> "hybrid", quantiles |-> <<10, 30, 70, 90>>]
    /\ grid = [cut_points |-> _fixed_bounds, evals |-> <<>>]

\* the process starts: LAST_BANDS is empty, the command line is parsed
RatingInit ==
    /\ LAST_BANDS = [s \in Sectors |-> NoBand]
    /\ \E h \in HysteresisValues, sch \in Schemes :
          args = [hysteresis |-> h, rating_scheme |-> sch, quantiles |-> <<10, 30, 70, 90>>]
    /\ grid = [cut_points |-> _fixed_bounds, evals |-> <<>>]

\* render_pi_grid(console, rows, ...): lines 320-350
RenderPiGrid ==
    /\ \E rows \in RowLists :
          LET cross_section == [k \in 1..Len(rows) |-> _get_pct(rows[k])]
              cut_points == _choose_bounds(cross_section, args.rating_scheme,
                                           args.quantiles, 5)
              res == Tiles(rows, 1, cut_points, args.hysteresis, LAST_BANDS)
          IN /\ LAST_BANDS' = res.bands
             /\ grid' = [cut_points |-> cut_points, evals |-> res.evals]
    /\ UNCHANGED <<args, fetchVars, classifyVars, scoreVars, pureVars, writeVars>>

(***************************************************************************)
(* Classification of one score: label_for and _band_index side by side     *)
(***************************************************************************)
\* the cut points a score is classified against: ascending, within 0..100
CutValues == {0, 15, 20, 25, 40, 60, 80, 85, 100}

BoundsSet ==
    { b \in [1..4 -> CutValues] : b[1] <= b[2] /\ b[2] <= b[3] /\ b[3] <= b[4] }

NoRating == [label |-> "-", short |-> "-", band |-> <<0, 0>>]

ClassifyParked ==
    /\ clsIn = [score |-> 0, bounds |-> _fixed_bounds]
    /\ clsOut = [done |-> FALSE, rating |-> NoRating, band_index |-> NoBand]

ClassifyInit ==
    /\ \E v \in 0..100, b \in BoundsSet : clsIn = [score |-> v, bounds |-> b]
    /\ clsOut = [done |-> FALSE, rating |-> NoRating, band_index |-> NoBand]

\* label_for(score, bounds) and _band_index(score, bounds) are evaluated
Classify ==
    /\ ~clsOut.done
    /\ clsOut' = [done |-> TRUE,
                  rating |-> label_for(clsIn.score, clsIn.bounds),
                  band_index |-> _band_index(clsIn.score, clsIn.bounds)]
    /\ UNCHANGED <<clsIn, fetchVars, ratingVars, scoreVars, pureVars, writeVars>>

(***************************************************************************)
(* The category scorers and compute_scores (market_health/engine.py), and  *)
(* the rows market_ui builds from their result.                            *)
(*                                                                         *)
(* A reading is an integer in the unit its thresholds need: returns in     *)
(* basis points, ATR% and band width in tenths of a percent, the           *)
(* correlation in hundredths, the volume ratio in tenths, prices in points.*)
(***************************************************************************)
\* np.nan: a reading pandas could not compute; every comparison with it is false
NaN == -99999

\* float("-inf"), the return of a sector without a 5-bar return
NegInf == -1000000

Gt(a, b) == a # NaN /\ b # NaN /\ a > b

Ge(a, b) == a # NaN /\ b # NaN /\ a >= b

Lt(a, b) == a # NaN /\ b # NaN /\ a < b

Le(a, b) == a # NaN /\ b # NaN /\ a <= b

Abs(x) == IF x = NaN THEN NaN ELSE IF x < 0 THEN -x ELSE x

Sub(a, b) == IF a = NaN \/ b = NaN THEN NaN ELSE a - b

RECURSIVE SumSeq(_)
\* sum(...) over a list of integers
SumSeq(xs) == IF xs = <<>> THEN 0 ELSE Head(xs) + SumSeq(Tail(xs))

CategoryKeys == <<"A", "B", "C", "D", "E", "F">>

CategorySet == {"A", "B", "C", "D", "E", "F"}

CHECK_LABELS ==
    [key \in CategorySet |->
        CASE key = "A" -> <<"News", "Analysts", "Event", "Insiders", "Peers/Macro", "Guidance">>
          [] key = "B" -> <<"Stacked MAs", "RS vs SPY", "BB Mid", "20D Break", "Vol x", "Hold 20EMA">>
          [] key = "C" -> <<"EM Fit", "OI/Flow", "Blocks/DP", "Leaders%>20D", "Money Flow", "SI/Days">>
          [] key = "D" -> <<"ATR%", "IV%", "Correlation", "Event Risk", "Gap Plan", "Sizing/RR">>
          [] key = "E" -> <<"SPY Trend", "Sector Rank", "Breadth", "VIX Regime", "3-Day RS", "Drivers">>
          [] key = "F" -> <<"Trigger", "Invalidation", "Targets", "Time Stop", "Slippage", "Alerts">>]

\* the sectors of a run, in the order the command line gives them
SectorUniverse == <<"XLK", "XLF", "XLI", "XLB", "XLRE", "XLU", "XLP", "XLY", "XLC", "XLE">>

\* the same symbols as Python orders strings
Alphabetical == <<"XLB", "XLC", "XLE", "XLF", "XLI", "XLK", "XLP", "XLRE", "XLU", "XLY">>

\* the longest list of sectors a run scores
MaxSectors == 7

SectorLists == { SubSeq(SectorUniverse, 1, n) : n \in {1, MaxSectors} }

PosIn(x, seq) == CHOOSE k \in 1..Len(seq) : seq[k] = x

\* a Python int as a JSON value
IntObj(n) == [t |-> "int", v |-> n]

(***************************************************************************)
(* Readings of a price table.                                              *)
(***************************************************************************)
\* the last close against its averages and the prior 20-bar high
TrendReadings ==
    { [close |-> 110, close_prev |-> 108, e9 |-> 106, e20 |-> 104, s50 |-> 100,
       mid20 |-> 103, mid20_prev |-> 102, prev20_high |-> 109, held |-> TRUE],
      [close |-> 105, close_prev |-> 101, e9 |-> 106, e20 |-> 104, s50 |-> 100,
       mid20 |-> 103, mid20_prev |-> 102, prev20_high |-> 109, held |-> FALSE],
      [close |-> 95, close_prev |-> 96, e9 |-> 97, e20 |-> 99, s50 |-> 100,
       mid20 |-> 98, mid20_prev |-> 98, prev20_high |-> 104, held |-> FALSE],
      [close |-> NaN, close_prev |-> NaN, e9 |-> NaN, e20 |-> NaN, s50 |-> NaN,
       mid20 |-> NaN, mid20_prev |-> NaN, prev20_high |-> NaN, held |-> FALSE] }

\* the 5-bar return, the last 5-bar return that is a number, the 1-bar return
\* and the sum of the last three 1-bar returns
MomentumReadings ==
    { [ret5 |-> 300, ret5_seen |-> 300, r1 |-> 250, ret3 |-> 150],
      [ret5 |-> 10, ret5_seen |-> 10, r1 |-> 60, ret3 |-> 5],
      [ret5 |-> -300, ret5_seen |-> -300, r1 |-> -10, ret3 |-> -150],
      [ret5 |-> NaN, ret5_seen |-> NaN, r1 |-> NaN, ret3 |-> NaN] }

\* ATR(14) as a percentage and in points, the Bollinger width, the 20-bar
\* correlation with SPY, the volume against its 20-bar mean
VolatilityReadings ==
    { [atr_pct |-> 20, width_pct |-> 40, corr |-> 80, atr |-> 6, vr |-> 16],
      [atr_pct |-> 40, width_pct |-> 80, corr |-> 45, atr |-> 3, vr |-> 12],
      [atr_pct |-> 60, width_pct |-> 120, corr |-> 10, atr |-> 1, vr |-> 5],
      [atr_pct |-> NaN, width_pct |-> NaN, corr |-> NaN, atr |-> NaN, vr |-> NaN] }

Readings == { t @@ m @@ v : t \in TrendReadings, m \in MomentumReadings,
                            v \in VolatilityReadings }

NoReadings ==
    [close |-> NaN, close_prev |-> NaN, e9 |-> NaN, e20 |-> NaN, s50 |-> NaN,
     mid20 |-> NaN, mid20_prev |-> NaN, prev20_high |-> NaN, held |-> FALSE,
     ret5 |-> NaN, ret5_seen |-> NaN, r1 |-> NaN, ret3 |-> NaN,
     atr_pct |-> NaN, width_pct |-> NaN, corr |-> NaN, atr |-> NaN, vr |-> NaN]

\* the readings of a sector that moves with the pack
PeerReadings(r5) ==
    [close |-> 105, close_prev |-> 101, e9 |-> 106, e20 |-> 104, s50 |-> 100,
     mid20 |-> 103, mid20_prev |-> 102, prev20_high |-> 109, held |-> FALSE,
     ret5 |-> r5, ret5_seen |-> r5, r1 |-> 60, ret3 |-> 5,
     atr_pct |-> 40, width_pct |-> 80, corr |-> 45, atr |-> 3, vr |-> 12]

OHLCV == {"Open", "High", "Low", "Close", "Volume"}

\* a price table safe_download returned, with its readings
Table(len, cols, ind) == [len |-> len, cols |-> cols, ind |-> ind]

EmptyTable == Table(0, {}, NoReadings)

TableShapes == { <<1, OHLCV>>, <<59, OHLCV>>, <<60, OHLCV>>, <<60, {"Close"}>> }

SymTables ==
    {EmptyTable} \cup { Table(sh[1], sh[2], r) : sh \in TableShapes, r \in Readings }

\* SPY: no table, a short one, or 60 bars in one of the trends
SpyTables ==
    { EmptyTable, Table(59, OHLCV, PeerReadings(20)) }
    \cup { Table(60, OHLCV, t @@ [ret5 |-> 20, ret3 |-> 0] @@ PeerReadings(20)) :
             t \in { u \in TrendReadings : u.close # NaN } }

\* ^VIX: no table, the index under its 20-bar mean, the index over it
VixTables ==
    { EmptyTable,
      Table(60, OHLCV, [close |-> 14, mid20 |-> 18] @@ NoReadings),
      Table(60, OHLCV, [close |-> 30, mid20 |-> 18] @@ NoReadings) }

\* the other sectors of a run: without data, or with returns spread by position
PeerKinds == {"empty", "spread"}

PeerTable(kind, k) ==
    IF kind = "spread" THEN Table(60, OHLCV, PeerReadings(100 * (k - 4))) ELSE EmptyTable

\* the scorers that raise in a run
FaultSets == { {}, {"A", "B", "D", "E"} }

(***************************************************************************)
(* Series helpers.                                                         *)
(***************************************************************************)
\* len(get_close(df))
close_len(df) == IF IsEmpty(df) THEN 0 ELSE df.len

\* len(pick_series(df, [name, ...]))
series_len(df, name) == IF name \in df.cols THEN df.len ELSE 0

\* last(sma(s, n)): a rolling mean needs n bars
sma_last(df, n, reading) == IF df.len >= n THEN reading ELSE NaN

\* pct_change(series, n)
pct_change(df, n, reading) == IF close_len(df) > n THEN reading ELSE NaN

(***************************************************************************)
(* The scorers.                                                            *)
(***************************************************************************)
compute_risk_volatility_checks(df, spy_df) ==
    LET r == df.ind
        neutral == <<1, 1, 1, 1, 1, 1>>
        score_atr == IF Ge(r.atr_pct, 10) /\ Le(r.atr_pct, 30) THEN 2
                     ELSE IF (Ge(r.atr_pct, 5) /\ Lt(r.atr_pct, 10))
                             \/ (Gt(r.atr_pct, 30) /\ Le(r.atr_pct, 45)) THEN 1
                     ELSE 0
        v_width == sma_last(df, 20, r.width_pct)
        score_iv == IF Ge(v_width, 20) /\ Le(v_width, 60) THEN 2
                    ELSE IF (Ge(v_width, 10) /\ Lt(v_width, 20))
                            \/ (Gt(v_width, 60) /\ Le(v_width, 90)) THEN 1
                    ELSE 0
        corr == IF Min(df.len, spy_df.len) - 1 >= 5 THEN r.corr ELSE NaN
        score_corr == IF ~IsEmpty(spy_df)
                      THEN IF "Close" \in spy_df.cols
                           THEN IF Ge(corr, 60) /\ Le(corr, 95) THEN 2
                                ELSE IF Ge(corr, 30) /\ Lt(corr, 60) THEN 1
                                ELSE 0
                           ELSE 1
                      ELSE 1
        ratio_num == Abs(Sub(r.close, r.e20))
        score_size == IF r.e20 # NaN /\ Gt(r.atr, 0)
                      THEN IF Le(ratio_num, r.atr) THEN 2
                           ELSE IF Le(ratio_num, 2 * r.atr) THEN 1
                           ELSE 0
                      ELSE 1
    IN IF IsEmpty(df) THEN neutral
       ELSE IF ~({"Close", "High", "Low"} \subseteq df.cols) \/ r.close = NaN THEN neutral
       ELSE <<score_atr, score_iv, score_corr, 1, 1, score_size>>

score_trend_structure(df, spy_close) ==
    LET r == df.ind
        mid20 == sma_last(df, 20, r.mid20)
        s50 == sma_last(df, 50, r.s50)
        c1 == IF Gt(r.close, r.e9) /\ Gt(r.e9, r.e20) /\ Gt(r.e20, s50) THEN 2
              ELSE IF Gt(r.close, r.e20) /\ Gt(r.e20, s50) THEN 1
              ELSE 0
        rs5 == Sub(pct_change(df, 5, r.ret5),
                   IF close_len(spy_close) > 5
                   THEN pct_change(spy_close, 5, spy_close.ind.ret5) ELSE 0)
        c2 == IF Gt(rs5, 0) THEN 2
              ELSE IF Lt(Abs(rs5), 20) THEN 1
              ELSE 0
        reclaimed == Gt(r.close, mid20) /\ Gt(r.close_prev, sma_last(df, 21, r.mid20_prev))
        c3 == IF reclaimed THEN 2 ELSE IF Gt(r.close, mid20) THEN 1 ELSE 0
        c4 == IF series_len(df, "High") >= 21
              THEN IF Gt(r.close, r.prev20_high) THEN 2
                   ELSE IF Gt(r.close, mid20) THEN 1
                   ELSE 0
              ELSE 0
        c5 == IF series_len(df, "Volume") >= 20
              THEN IF Ge(r.vr, 15) THEN 2 ELSE IF Ge(r.vr, 11) THEN 1 ELSE 0
              ELSE 1
        c6 == IF r.held THEN 2 ELSE IF Ge(r.close, r.e20) THEN 1 ELSE 0
    IN IF IsEmpty(df) THEN <<0, 0, 0, 0, 0, 0>>
       ELSE IF close_len(df) < 60 THEN <<0, 0, 0, 0, 0, 0>>
       ELSE <<c1, c2, c3, c4, c5, c6>>

score_environment(sym, df, spy_close, vix_close, sector_ranks) ==
    LET r == df.ind
        spy == spy_close.ind
        s50 == sma_last(df, 50, r.s50)
        spy50 == sma_last(spy_close, 50, spy.s50)
        c1 == IF Gt(spy.close, spy.e20) /\ Gt(spy.e20, spy50) THEN 2
              ELSE IF Gt(spy.close, spy50) THEN 1
              ELSE 0
        rank == sector_ranks[sym]
        c2 == IF rank <= 3 THEN 2 ELSE IF rank <= 6 THEN 1 ELSE 0
        c3 == IF Gt(r.close, r.e20) /\ Gt(r.e20, s50) THEN 2
              ELSE IF Gt(r.close, s50) THEN 1
              ELSE 0
        c4 == IF close_len(vix_close) >= 21
              THEN IF Lt(vix_close.ind.close, sma_last(vix_close, 20, vix_close.ind.mid20))
                   THEN 2 ELSE 0
              ELSE 1
        rs3 == IF r.ret3 = NaN \/ spy.ret3 = NaN THEN 0 ELSE r.ret3 - spy.ret3
        c5 == IF rs3 > 0 THEN 2 ELSE IF Abs(rs3) < 10 THEN 1 ELSE 0
    IN IF IsEmpty(df) THEN <<0, 0, 0, 0, 0, 1>>
       ELSE IF close_len(df) < 60 \/ close_len(spy_close) < 60 THEN <<0, 0, 0, 0, 0, 1>>
       ELSE <<c1, c2, c3, c4, c5, 1>>

\* compute_catalyst_proxies that asks for 20 closes
compute_catalyst_proxies_eager(df) ==
    LET r == df.ind
        vol_boost == IF series_len(df, "Volume") >= 20 /\ Gt(r.vr, 0) THEN r.vr ELSE 10
        news == IF Ge(Abs(r.r1), 200) \/ vol_boost >= 15 THEN 2
                ELSE IF Ge(Abs(r.r1), 50) THEN 1
                ELSE 0
    IN IF close_len(df) < 20 THEN <<1, 1, 1, 1, 1, 1>>
       ELSE <<news, 1, 1, 1, 1, 1>>

compute_catalyst_proxies(df) ==
    LET r == df.ind
        vol_boost == IF series_len(df, "Volume") >= 20 /\ Gt(r.vr, 0) THEN r.vr ELSE 10
        news == IF Ge(Abs(r.r1), 200) \/ vol_boost >= 15 THEN 2
                ELSE IF Ge(Abs(r.r1), 50) THEN 1
                ELSE 0
    IN IF close_len(df) < 21 THEN <<1, 1, 1, 1, 1, 1>>
       ELSE <<news, 1, 1, 1, 1, 1>>

\* Category C, lines 339-444. Its readings: atr_hh is the ATR(14) of lines
\* 364-368, taken with low = get_high(df); flow_ratio is up-volume over
\* down-volume in hundredths, above the percentage of the last 20 closes over
\* their SMA20, slope the OBV slope, vol_seen whether a volume is a number.
compute_position_flow_checks(df) ==
    LET r == df.ind
        atr == IF "High" \in df.cols THEN r.atr_hh ELSE NaN
        gap == Abs(Sub(r.close, r.e20))
        c1 == IF Gt(atr, 0) /\ gap # NaN
              THEN IF Le(gap, atr) THEN 2 ELSE IF Le(gap, 2 * atr) THEN 1 ELSE 0
              ELSE 0
        flow_ratio == IF r.vol_seen THEN r.flow_ratio ELSE NaN
        c2 == IF Gt(flow_ratio, 120) THEN 2 ELSE IF Ge(flow_ratio, 90) THEN 1 ELSE 0
        c3 == IF series_len(df, "Volume") >= 20 /\ Gt(r.vr, 0)
              THEN IF Ge(r.vr, 15) THEN 2 ELSE IF Ge(r.vr, 11) THEN 1 ELSE 0
              ELSE 1
        c4 == IF close_len(df) >= 20
              THEN IF r.above >= 60 THEN 2 ELSE IF r.above >= 50 THEN 1 ELSE 0
              ELSE 1
        c5 == IF r.vol_seen
              THEN IF series_len(df, "Volume") >= 20
                   THEN IF Gt(r.slope, 0) THEN 2 ELSE IF r.slope = 0 THEN 1 ELSE 0
                   ELSE 1
              ELSE 1
    IN IF close_len(df) = 0 \/ close_len(df) < 30 \/ series_len(df, "Volume") = 0
       THEN <<1, 1, 1, 1, 1, 1>>
       ELSE <<c1, c2, c3, c4, c5, 1>>

(***************************************************************************)
(* compute_scores                                                          *)
(***************************************************************************)
\* rets of lines 465-470
sector_rets(sectors, data) ==
    [k \in 1..Len(sectors) |->
        LET c == data[sectors[k]]
        IN IF close_len(c) > 5 /\ c.ind.ret5_seen # NaN THEN c.ind.ret5_seen ELSE NegInf]

\* RanksBefore with ties left in reverse name order
RanksBefore_reversed(a, b, sectors, rets) ==
    \/ rets[a] > rets[b]
    \/ /\ rets[a] = rets[b]
       /\ PosIn(sectors[a], Alphabetical) > PosIn(sectors[b], Alphabetical)

\* the sort key of line 471, (-return, symbol): sector a sorts before sector b
RanksBefore(a, b, sectors, rets) ==
    \/ rets[a] > rets[b]
    \/ /\ rets[a] = rets[b]
       /\ PosIn(sectors[a], Alphabetical) < PosIn(sectors[b], Alphabetical)

RECURSIVE InsertRanked(_, _, _, _)
InsertRanked(a, xs, sectors, rets) ==
    IF xs = <<>> THEN <<a>>
    ELSE IF RanksBefore(a, Head(xs), sectors, rets) THEN <<a>> \o xs
    ELSE <<Head(xs)>> \o InsertRanked(a, Tail(xs), sectors, rets)

RECURSIVE RankedFrom(_, _, _)
\* ranked of line 471: the sectors from position k on, sorted by the key
RankedFrom(k, sectors, rets) ==
    IF k > Len(sectors) THEN <<>>
    ELSE InsertRanked(k, RankedFrom(k + 1, sectors, rets), sectors, rets)

\* ranks of lines 471-472: best return first, ties by symbol
sector_ranks(sectors, data) ==
    LET rets == sector_rets(sectors, data)
        ranked == RankedFrom(1, sectors, rets)
    IN [sym \in { sectors[k] : k \in 1..Len(sectors) } |->
          PosIn(PosIn(sym, sectors), ranked)]

\* a category node: its checks, labelled in order
CategoryNode(key, scores) ==
    [checks |-> [k \in 1..Min(Len(scores), 6) |->
                    [label |-> CHECK_LABELS[key][k], score |-> IntObj(scores[k])]]]

\* the loop body of lines 476-516 for one symbol
SectorObject(sym, data, ranks, faults) ==
    LET df_sym == data[sym]
        spy_close == data["SPY"]
        vix_close == data["^VIX"]
        b_scores == IF "B" \in faults \/ IsEmpty(df_sym) THEN <<0, 0, 0, 0, 0, 0>>
                    ELSE score_trend_structure(df_sym, spy_close)
        e_scores == IF "E" \in faults \/ IsEmpty(df_sym) THEN <<0, 0, 0, 0, 0, 1>>
                    ELSE score_environment(sym, df_sym, spy_close, vix_close, ranks)
        d_checks == IF "D" \in faults THEN <<1, 1, 1, 1, 1, 1>>
                    ELSE compute_risk_volatility_checks(df_sym, data["SPY"])
        a_checks == IF "A" \in faults THEN <<1, 1, 1, 1, 1, 1>>
                    ELSE compute_catalyst_proxies(df_sym)
        neutral == <<1, 1, 1, 1, 1, 1>>
    IN [symbol |-> sym,
        categories |-> [key \in CategorySet |->
                          CategoryNode(key,
                              CASE key = "A" -> a_checks
                                [] key = "B" -> b_scores
                                [] key = "C" -> neutral
                                [] key = "D" -> d_checks
                                [] key = "E" -> e_scores
                                [] key = "F" -> neutral)]]

\* compute_scores that leaves out the sectors without a table
compute_scores_dropping(sectors, data, faults) ==
    LET ranks == sector_ranks(sectors, data)
        kept == SelectSeq(sectors, LAMBDA x : ~IsEmpty(data[x]))
    IN [k \in 1..Len(kept) |-> SectorObject(kept[k], data, ranks, faults)]

compute_scores(sectors, data, faults) ==
    LET ranks == sector_ranks(sectors, data)
    IN [k \in 1..Len(sectors) |-> SectorObject(sectors[k], data, ranks, faults)]

(***************************************************************************)
(* Payloads read from a JSON file.                                         *)
(***************************************************************************)
\* the values a "score" member can hold; a float counts tenths
JsonScores ==
    { IntObj(-3), IntObj(0), IntObj(1), IntObj(2), IntObj(7),
      [t |-> "float", v |-> 19], [t |-> "float", v |-> -5],
      [t |-> "nan", v |-> 0], [t |-> "inf", v |-> 0],
      [t |-> "str", v |-> 2], [t |-> "text", v |-> 0],
      [t |-> "none", v |-> 0], [t |-> "bool", v |-> 1], [t |-> "missing", v |-> 0] }

JsonCheckLists ==
    { [k \in 1..n |-> [label |-> "x", score |-> raw]] : n \in {3, 6, 7}, raw \in JsonScores }
    \cup { <<>>,
           << [label |-> "x", score |-> IntObj(2)], [label |-> "x", score |-> IntObj(7)],
              [label |-> "x", score |-> [t |-> "text", v |-> 0]],
              [label |-> "x", score |-> IntObj(-3)],
              [label |-> "x", score |-> [t |-> "float", v |-> 19]],
              [label |-> "x", score |-> IntObj(0)] >> }

\* the categories a file's object spells out
JsonKeySets == { CategorySet, {"A", "B"} }

JsonItems ==
    { [symbol |-> "XLK",
       categories |-> [key \in ks |-> [checks |-> IF key = "A" THEN la ELSE lb]]] :
        ks \in JsonKeySets, la \in JsonCheckLists, lb \in JsonCheckLists }

\* int(raw): the integer, or the error int raises
PyInt(raw) ==
    CASE raw.t \in {"int", "bool", "str"} -> [ok |-> TRUE, v |-> raw.v, exc |-> "-"]
      [] raw.t = "float" ->
           [ok |-> TRUE, v |-> IF raw.v >= 0 THEN raw.v \div 10 ELSE -((-raw.v) \div 10),
            exc |-> "-"]
      [] raw.t \in {"nan", "text"} -> [ok |-> FALSE, v |-> 0, exc |-> "ValueError"]
      [] raw.t = "inf" -> [ok |-> FALSE, v |-> 0, exc |-> "OverflowError"]
      [] raw.t = "none" -> [ok |-> FALSE, v |-> 0, exc |-> "TypeError"]
      [] OTHER -> [ok |-> TRUE, v |-> 0, exc |-> "-"]

(***************************************************************************)
(* market_ui: Check, Category, SectorRow and build_sector_from_json        *)
(***************************************************************************)
\* Clamp that lets every integer through
Clamp_none(n) == n

\* max(0, min(2, n)) of line 161
Clamp(n) == Max(0, Min(2, n))

\* item.get("categories", {}).get(key, {}).get("checks", [])
ChecksJson(item, key) ==
    IF key \in DOMAIN item.categories THEN item.categories[key].checks ELSE <<>>

\* CheckScoreOf that caps a score at 1
CheckScoreOf_binary(checks_json, idx) ==
    IF idx <= Len(checks_json)
    THEN LET n == PyInt(checks_json[idx].score)
         IN IF n.ok THEN Max(0, Min(1, n.v)) ELSE 0
    ELSE 0

\* the score of check idx of a category: lines 157-164
CheckScoreOf(checks_json, idx) ==
    IF idx <= Len(checks_json)
    THEN LET n == PyInt(checks_json[idx].score)
         IN IF n.ok THEN Clamp(n.v) ELSE 0
    ELSE 0

\* the errors int raises on the scores build_sector_from_json converts
IntErrors(item) ==
    UNION { { PyInt(ChecksJson(item, key)[idx].score).exc :
                idx \in 1..Min(6, Len(ChecksJson(item, key))) } : key \in CategorySet }

\* the error that escapes the except clause of line 162, "-" when none does
BuildError(item) ==
    LET escaping == IntErrors(item) \ {"-", "ValueError", "TypeError"}
    IN IF escaping = {} THEN "-" ELSE CHOOSE e \in escaping : TRUE

build_sector_from_json(item) ==
    [symbol |-> item.symbol,
     categories |-> [key \in CategorySet |->
                       [key |-> key,
                        checks |-> [idx \in 1..6 |->
                                      [label |-> CHECK_LABELS[key][idx],
                                       score |-> CheckScoreOf(ChecksJson(item, key), idx)]]]]]

\* Category.total
CategoryTotal(cat) == SumSeq([k \in 1..Len(cat.checks) |-> cat.checks[k].score])

\* SectorRow.total
SectorRowTotal(row) ==
    SumSeq([c \in 1..6 |-> CategoryTotal(row.categories[CategoryKeys[c]])])

\* mh_cli._category_total: the sum of a category node's scores, 0 when one is no integer
_category_total(cat_node) ==
    LET ints == [k \in 1..Len(cat_node.checks) |-> PyInt(cat_node.checks[k].score)]
    IN IF \A k \in 1..Len(ints) : ints[k].ok
       THEN SumSeq([k \in 1..Len(ints) |-> ints[k].v])
       ELSE 0

\* the total column of mh_cli._as_csv_rows
PayloadTotal(item) ==
    SumSeq([c \in 1..6 |->
              IF CategoryKeys[c] \in DOMAIN item.categories
              THEN _category_total(item.categories[CategoryKeys[c]])
              ELSE 0])

NotAsked == [sectors |-> <<>>, nodata |-> {}]

\* no function is evaluated on its own
PureParked ==
    /\ fnIn = "-"
    /\ fnOut = "-"

ScoresParked ==
    /\ uiPc = "off"
    /\ mode = "-"
    /\ payload = <<>>
    /\ sectorRows = <<>>
    /\ asked = NotAsked

ScoresInit ==
    /\ uiPc = "start"
    /\ mode = "-"
    /\ payload = <<>>
    /\ sectorRows = <<>>
    /\ asked = NotAsked

\* the symbols compute_scores asks safe_download for
Need(sectors) == { sectors[k] : k \in 1..Len(sectors) } \cup {"SPY", "^VIX"}

\* load_live_dataset, line 182: compute_scores(sectors, ...) returns its rows, or
\* the error safe_download let through ends it
ComputeScores ==
    /\ uiPc = "start"
    /\ mode' = "live"
    /\ \/ /\ uiPc' = "raised"
          /\ payload' = payload
          /\ asked' = asked
       \/ /\ uiPc' = "scored"
          /\ \E sectors \in SectorLists, tbl \in SymTables, spy \in SpyTables,
                vix \in VixTables, faults \in FaultSets :
                \E peer \in IF Len(sectors) = 1 THEN {"empty"} ELSE PeerKinds :
                    LET data == [s \in Need(sectors) |->
                                   IF s = "SPY" THEN spy
                                   ELSE IF s = "^VIX" THEN vix
                                   ELSE IF s = sectors[1] THEN tbl
                                   ELSE PeerTable(peer, PosIn(s, sectors))]
                    IN /\ payload' = compute_scores(sectors, data, faults)
                       /\ asked' = [sectors |-> sectors,
                                    nodata |-> { sectors[k] : k \in { j \in 1..Len(sectors) :
                                                                        IsEmpty(data[sectors[j]]) } }]
    /\ UNCHANGED <<sectorRows, fetchVars, ratingVars, classifyVars, pureVars, writeVars>>

\* load_json_dataset, lines 169-170: the file is parsed
LoadJson ==
    /\ uiPc = "start"
    /\ mode' = "json"
    /\ uiPc' = "scored"
    /\ \E item \in JsonItems : payload' = <<item>>
    /\ UNCHANGED <<sectorRows, asked, fetchVars, ratingVars, classifyVars, pureVars, writeVars>>

\* lines 172-176 and 183: a SectorRow is built from every object of the payload
BuildRows ==
    /\ uiPc = "scored"
    /\ IF \E k \in 1..Len(payload) : BuildError(payload[k]) # "-"
       THEN /\ uiPc' = "raised"
            /\ sectorRows' = sectorRows
       ELSE /\ uiPc' = "built"
            /\ sectorRows' = [k \in 1..Len(payload) |-> build_sector_from_json(payload[k])]
    /\ UNCHANGED <<mode, payload, asked, fetchVars, ratingVars, classifyVars, pureVars, writeVars>>

\* render_once, lines 465-476: the rows loaded are rendered by render_pi_grid,
\* lines 320-350; a symbol LAST_BANDS has no entry for is carried as NoBand
RenderRows ==
    /\ uiPc = "built"
    /\ sectorRows # <<>>
    /\ uiPc' = "shown"
    /\ LET syms == { sectorRows[k].symbol : k \in 1..Len(sectorRows) }
           bands == [sym \in DOMAIN LAST_BANDS \cup syms |->
                       IF sym \in DOMAIN LAST_BANDS THEN LAST_BANDS[sym] ELSE NoBand]
           cross_section == [k \in 1..Len(sectorRows) |-> _get_pct(sectorRows[k])]
           cut_points == _choose_bounds(cross_section, args.rating_scheme,
                                        args.quantiles, 5)
           res == Tiles(sectorRows, 1, cut_points, args.hysteresis, bands)
       IN /\ LAST_BANDS' = res.bands
          /\ grid' = [cut_points |-> cut_points, evals |-> res.evals]
    /\ UNCHANGED <<args, mode, payload, sectorRows, asked, fetchVars, classifyVars,
                   pureVars, writeVars>>

(***************************************************************************)
(* Properties of the rating bands.                                         *)
(***************************************************************************)
\* the tiles of the last render
TilesShown == { grid.evals[k] : k \in 1..Len(grid.evals) }

\* the lower bound of band b under the cut points c1..c4
LowerBound(b, cuts) == << 0, cuts[1], cuts[2], cuts[3], cuts[4] >>[b + 1]

\* C2: with hysteresis h > 0 and a previously committed band, an evaluation
\* whose raw band is higher commits the raw band if the score is at least the
\* raw band's lower bound plus h, and keeps the committed band otherwise; with
\* band 2, cut points 20/40/60/80 and h = 5, score 61 keeps band 2 and score
\* 66 commits band 3.
C2_HysteresisUp ==
    \A t \in TilesShown :
        (args.hysteresis > 0 /\ t.last # NoBand /\ t.raw > t.last) =>
            /\ t.band = IF t.pct >= LowerBound(t.raw, grid.cut_points) + args.hysteresis
                        THEN t.raw ELSE t.last
            /\ LAST_BANDS[t.sym] = t.band
            /\ (grid.cut_points = <<20, 40, 60, 80>> /\ args.hysteresis = 5 /\ t.last = 2) =>
                  /\ t.pct = 61 => t.band = 2
                  /\ t.pct = 66 => t.band = 3

C2_Witness ==
    \E t \in TilesShown :
        /\ args.hysteresis = 5
        /\ args.rating_scheme = "fixed"
        /\ t.last = 2
        /\ t.pct = 65
        /\ t.band = 3
        /\ LAST_BANDS[t.sym] = 3

\* C3: with hysteresis h > 0 and a previously committed band L, an evaluation
\* whose raw band is lower commits the raw band exactly when
\* score <= lower(L) - h, and keeps band L otherwise.
C3_HysteresisDown ==
    \A t \in TilesShown :
        (args.hysteresis > 0 /\ t.last # NoBand /\ t.raw < t.last) =>
            t.band = IF t.pct <= LowerBound(t.last, grid.cut_points) - args.hysteresis
                     THEN t.raw ELSE t.last

\* the cut point c separates the bands b and b + 1 of the fixed scheme
Adjacent(b, c) == \E k \in 1..4 : _fixed_bounds[k] = c /\ b \in {k - 1, k}

IntervalBand(v, c) ==
    CASE v < c[1] -> 0
      [] c[1] <= v /\ v < c[2] -> 1
      [] c[2] <= v /\ v < c[3] -> 2
      [] c[3] <= v /\ v < c[4] -> 3
      [] v >= c[4] -> 4

\* C26: after every evaluation of a symbol in render_pi_grid, LAST_BANDS[symbol]
\* is an index in 0..4 that equals the raw band of the current score or the
\* band committed before the evaluation, never a band in between, and it
\* equals the raw band whenever hysteresis is 0 or no band was committed before.
C26_NoIntermediateBand ==
    [][ \A k \in 1..Len(grid'.evals) :
          LET t == grid'.evals[k]
              before == LAST_BANDS[t.sym]
              after == LAST_BANDS'[t.sym]
              raw == IntervalBand(t.pct, grid'.cut_points)
          IN /\ after \in 0..4
             /\ after \in {raw, before}
             /\ t.band = after
             /\ (args.hysteresis = 0 \/ before = NoBand) => after = raw ]_vars

C26_Witness ==
    \E t \in TilesShown :
        /\ args.hysteresis = 5
        /\ grid.cut_points = <<20, 40, 60, 80>>
        /\ t.last = 0
        /\ t.pct = 41
        /\ t.raw = 2
        /\ t.band = 0
        /\ LAST_BANDS[t.sym] = 0

\* C5: label_for and _band_index classify by left-closed intervals, and give
\* the same band for every score and every ascending cut points; with
\* 20/40/60/80, 19 is band 0, 20 is band 1 and 100 is band 4.
C5_LeftClosed ==
    clsOut.done =>
        /\ clsOut.band_index = IntervalBand(clsIn.score, clsIn.bounds)
        /\ clsOut.rating.label = LABELS[clsOut.band_index + 1][1]
        /\ clsOut.rating.short = LABELS[clsOut.band_index + 1][2]
        /\ clsIn.bounds = <<20, 40, 60, 80>> =>
              /\ clsIn.score = 19 => clsOut.band_index = 0
              /\ clsIn.score = 20 => clsOut.band_index = 1
              /\ clsIn.score = 100 => clsOut.band_index = 4

C5_Witness ==
    /\ clsOut.done
    /\ clsIn.bounds = <<20, 40, 60, 80>>
    /\ clsIn.score = 20
    /\ clsOut.band_index = 1
    /\ clsOut.rating.label = "Sell"

(***************************************************************************)
(* Properties of the scores.                                               *)
(***************************************************************************)
\* the rows compute_scores produced
ComputedRows ==
    IF mode = "live" /\ uiPc \in {"scored", "built"}
    THEN { payload[k] : k \in 1..Len(payload) }
    ELSE {}

\* the SectorRows build_sector_from_json built
BuiltRows == { sectorRows[k] : k \in 1..Len(sectorRows) }

\* C10: in every row compute_scores produces and in every SectorRow
\* build_sector_from_json builds, every check score is 0, 1 or 2, every category
\* total is between 0 and 12 and every row total is between 0 and 72.
C10_ScoreRanges ==
    /\ \A row \in ComputedRows :
          /\ \A key \in CategorySet :
                LET node == row.categories[key]
                IN /\ \A k \in 1..Len(node.checks) :
                         /\ node.checks[k].score.t = "int"
                         /\ node.checks[k].score.v \in {0, 1, 2}
                   /\ _category_total(node) \in 0..12
          /\ PayloadTotal(row) \in 0..72
    /\ \A row \in BuiltRows :
          /\ \A key \in CategorySet :
                LET cat == row.categories[key]
                IN /\ \A k \in 1..Len(cat.checks) : cat.checks[k].score \in {0, 1, 2}
                   /\ CategoryTotal(cat) \in 0..12
          /\ SectorRowTotal(row) \in 0..72

C10_Witness ==
    /\ uiPc = "built"
    /\ mode = "live"
    /\ Len(payload) = MaxSectors
    /\ \E k \in 1..Len(sectorRows) :
          /\ CategoryTotal(sectorRows[k].categories["B"]) = 12
          /\ CategoryTotal(sectorRows[k].categories["E"]) >= 9
          /\ SectorRowTotal(sectorRows[k]) = PayloadTotal(payload[k])
    /\ \E k \in 1..Len(sectorRows) : CategoryTotal(sectorRows[k].categories["B"]) = 0

\* the scores of a category node of a payload row, in order
NodeScores(node) == [k \in 1..Len(node.checks) |-> node.checks[k].score.v]

\* C11: compute_scores returns one row per requested symbol, in request order,
\* each with the six categories A..F of six checks labelled with the category's
\* fixed labels in order; the row of a symbol without data holds scores 0 and 1
\* only.
C11_NoSymbolDropped ==
    (mode = "live" /\ uiPc \in {"scored", "built"}) =>
        /\ Len(payload) = Len(asked.sectors)
        /\ \A k \in 1..Len(payload) :
              /\ payload[k].symbol = asked.sectors[k]
              /\ DOMAIN payload[k].categories = {"A", "B", "C", "D", "E", "F"}
              /\ \A key \in DOMAIN payload[k].categories :
                    LET checks == payload[k].categories[key].checks
                    IN /\ Len(checks) = 6
                       /\ \A c \in 1..6 : checks[c].label = CHECK_LABELS[key][c]
              /\ payload[k].symbol \in asked.nodata =>
                    \A key \in DOMAIN payload[k].categories :
                        \A c \in 1..6 : payload[k].categories[key].checks[c].score.v \in {0, 1}

C11_Witness ==
    /\ mode = "live"
    /\ uiPc = "scored"
    /\ Len(asked.sectors) = MaxSectors
    /\ asked.nodata = { asked.sectors[k] : k \in 1..Len(asked.sectors) }
    /\ Len(payload) = MaxSectors
    /\ NodeScores(payload[1].categories["E"]) = <<0, 0, 0, 0, 0, 1>>
    /\ NodeScores(payload[MaxSectors].categories["D"]) = <<1, 1, 1, 1, 1, 1>>

(***************************************************************************)
(* The cross-sectional ranking of compute_scores on its own.               *)
(***************************************************************************)
\* the longest list of sectors ranked
MaxRanked == 3

\* the sectors are distinct symbols; their tables have a 5-bar return of -1%,
\* 2% or 5%, or none: no table, three bars only, closes that are no numbers
RankingInit ==
    /\ \E n \in 1..MaxRanked :
          \E sectors \in [1..n -> {"XLK", "XLF", "XLE", "XLRE"}] :
              /\ \A a, b \in 1..n : a # b => sectors[a] # sectors[b]
              /\ \E data \in [{ sectors[k] : k \in 1..n } ->
                                { Table(60, OHLCV, PeerReadings(r5)) :
                                      r5 \in {-100, 200, 500, NaN} }
                                \cup { EmptyTable, Table(3, OHLCV, PeerReadings(200)) }] :
                    fnIn = [sectors |-> sectors, data |-> data]
    /\ fnOut = [done |-> FALSE]

\* lines 465-472 of compute_scores
Rank ==
    /\ ~fnOut.done
    /\ fnOut' = [done |-> TRUE, ranks |-> sector_ranks(fnIn.sectors, fnIn.data)]
    /\ UNCHANGED <<fnIn, fetchVars, ratingVars, classifyVars, scoreVars, writeVars>>

\* the 5-bar return a table gives a sector, in basis points
ReturnOf(tbl) == IF tbl.len > 5 /\ tbl.cols # {} /\ tbl.ind.ret5_seen # NaN
                 THEN <<tbl.ind.ret5_seen>> ELSE <<>>

\* C12: the ranks of n distinct symbols are a bijection onto 1..n; a strictly
\* higher 5-bar return gives a strictly smaller rank, equal returns are ranked
\* by ascending symbol name, and a symbol without a return ranks after every
\* symbol with one; XLK 5%, XLF 2%, XLE -1% gives XLK 1, XLF 2, XLE 3.
C12_RankingTotal ==
    fnOut.done =>
        LET syms == { fnIn.sectors[k] : k \in 1..Len(fnIn.sectors) }
            ret5(x) == ReturnOf(fnIn.data[x])
            rank == fnOut.ranks
        IN /\ DOMAIN rank = syms
           /\ { rank[x] : x \in syms } = 1..Cardinality(syms)
           /\ \A a, b \in syms :
                 /\ (ret5(a) # <<>> /\ ret5(b) # <<>> /\ ret5(a)[1] > ret5(b)[1]) => rank[a] < rank[b]
                 /\ (a # b /\ ret5(a) = ret5(b) /\ PosIn(a, Alphabetical) < PosIn(b, Alphabetical)) => rank[a] < rank[b]
                 /\ (ret5(a) # <<>> /\ ret5(b) = <<>>) => rank[a] < rank[b]
           /\ (syms = {"XLK", "XLF", "XLE"} /\ ret5("XLK") = <<500>> /\ ret5("XLF") = <<200>>
                  /\ ret5("XLE") = <<-100>>) =>
                 (rank["XLK"] = 1 /\ rank["XLF"] = 2 /\ rank["XLE"] = 3)

C12_Witness ==
    /\ fnOut.done
    /\ fnIn.sectors = <<"XLE", "XLK", "XLF">>
    /\ ReturnOf(fnIn.data["XLK"]) = <<200>>
    /\ ReturnOf(fnIn.data["XLF"]) = <<200>>
    /\ ReturnOf(fnIn.data["XLE"]) = <<>>
    /\ fnOut.ranks["XLF"] = 1
    /\ fnOut.ranks["XLK"] = 2
    /\ fnOut.ranks["XLE"] = 3

(***************************************************************************)
(* choose_bounds of rating.py and _choose_bounds of render_pi_grid on      *)
(* their own.                                                              *)
(***************************************************************************)
\* the largest cross-section the bounds are chosen for
MaxCross == 3

\* scores, a scheme, four percentiles and a guard; NoAttr is a score of None
BoundsInit ==
    /\ \E n \in 0..MaxCross :
          \E scores \in [1..n -> {0, 22, 50, 78, 100, NoAttr}] :
              \E scheme \in Schemes :
                  \E qs \in {<<10, 30, 70, 90>>, <<25, 50, 75, 100>>,
                              <<0, 0, 50, 100>>, <<90, 70, 30, 10>>} :
                      \E guard \in {0, 5, 12} :
                          fnIn = [scores |-> scores, scheme |-> scheme,
                                  qs |-> qs, guard |-> guard]
    /\ fnOut = [done |-> FALSE]

\* choose_bounds(scores, scheme, qs, guard) of rating.py and
\* _choose_bounds(vals, scheme, qs, guard) of render_pi_grid are evaluated
ChooseBounds ==
    /\ ~fnOut.done
    /\ fnOut' = [done |-> TRUE,
                 bounds |-> choose_bounds(fnIn.scores, fnIn.scheme, fnIn.qs, fnIn.guard),
                 cut_points |-> _choose_bounds(fnIn.scores, fnIn.scheme, fnIn.qs,
                                               fnIn.guard)]
    /\ UNCHANGED <<fnIn, fetchVars, ratingVars, classifyVars, scoreVars, writeVars>>

\* the integer scores of the cross-section, ascending
CrossSection == LET keep(v) == v # NoAttr IN Sorted(SelectSeq(fnIn.scores, keep))

\* C13: for every scheme and every cross-section of scores in 0..100 the four
\* cut points are strictly ascending, c1 < c2 < c3 < c4 (stated for strictly
\* ascending percentiles and the guard 5 that render_pi_grid passes).
C13_StrictlyAscending ==
    (/\ fnOut.done
     /\ fnIn.guard = 5
     /\ \A k \in 1..3 : fnIn.qs[k] < fnIn.qs[k + 1]) =>
        /\ \A k \in 1..3 : fnOut.bounds[k] < fnOut.bounds[k + 1]
        /\ \A k \in 1..3 : fnOut.cut_points[k] < fnOut.cut_points[k + 1]

\* C19: for every payload row whose six categories each hold six checks with
\* scores in {0,1,2}, as every row of compute_scores does, the SectorRow that
\* build_sector_from_json yields has the six category totals and the row total
\* that mh_cli's _category_total and _as_csv_rows compute from the payload, and
\* the same symbol.
C19_RoundTrip ==
    uiPc \in {"built", "shown"} =>
        /\ Len(sectorRows) = Len(payload)
        /\ \A k \in 1..Len(payload) :
              LET item == payload[k]
                  wellFormed ==
                      /\ DOMAIN item.categories = {"A", "B", "C", "D", "E", "F"}
                      /\ \A key \in DOMAIN item.categories :
                            /\ Len(item.categories[key].checks) = 6
                            /\ \A c \in 1..6 :
                                  /\ item.categories[key].checks[c].score.t = "int"
                                  /\ item.categories[key].checks[c].score.v \in {0, 1, 2}
              IN wellFormed =>
                    /\ sectorRows[k].symbol = item.symbol
                    /\ \A key \in {"A", "B", "C", "D", "E", "F"} :
                          CategoryTotal(sectorRows[k].categories[key])
                              = _category_total(item.categories[key])
                    /\ SectorRowTotal(sectorRows[k]) = PayloadTotal(item)
                    /\ mode = "live" => item.symbol = asked.sectors[k]

C19_Witness ==
    /\ uiPc = "built"
    /\ mode = "live"
    /\ Len(payload) = MaxSectors
    /\ \A k \in 1..Len(payload) : sectorRows[k].symbol = asked.sectors[k]
    /\ \E k \in 1..Len(payload) :
          /\ _category_total(payload[k].categories["B"]) = 12
          /\ CategoryTotal(sectorRows[k].categories["B"]) = 12
          /\ PayloadTotal(payload[k]) > 36
          /\ SectorRowTotal(sectorRows[k]) = PayloadTotal(payload[k])

(***************************************************************************)
(* The category scorers on their own.                                      *)
(***************************************************************************)
\* a table of the symbol, of every length around the scorers' windows, with
\* all or some of its columns, and a table of SPY
ScorersInit ==
    /\ \E len \in {0, 1, 20, 21, 29, 30, 59, 60} :
          \E cols \in {OHLCV, {"Close"}, OHLCV \ {"Volume"}, {"Open", "Volume"}} :
              \E t \in TrendReadings :
                  \E flow \in {[atr_hh |-> 3, flow_ratio |-> 130, above |-> 65, slope |-> 4,
                                 vol_seen |-> TRUE, r1 |-> 250],
                                [atr_hh |-> NaN, flow_ratio |-> NaN, above |-> 40,
                                 slope |-> -4, vol_seen |-> FALSE, r1 |-> 10]} :
                      \E spy \in {EmptyTable, Table(59, OHLCV, PeerReadings(20)),
                                   Table(60, OHLCV, PeerReadings(20)),
                                   Table(60, {"Open", "Volume"}, PeerReadings(20))} :
                          fnIn = [df |-> IF len = 0 THEN EmptyTable
                                         ELSE Table(len, cols, flow @@ t @@ PeerReadings(200)),
                                  spy |-> spy]
    /\ fnOut = [done |-> FALSE]

\* each scorer is called with the table, as lines 479-502 call B, E, D and A,
\* and compute_scores assembles the row of the table (lines 476-516)
Score ==
    /\ ~fnOut.done
    /\ fnOut' = [done |-> TRUE,
                 rows |-> compute_scores(<<"XLK">>,
                                         [s \in Need(<<"XLK">>) |->
                                            IF s = "XLK" THEN fnIn.df
                                            ELSE IF s = "SPY" THEN fnIn.spy
                                            ELSE EmptyTable],
                                         {}),
                 A |-> compute_catalyst_proxies(fnIn.df),
                 B |-> score_trend_structure(fnIn.df, fnIn.spy),
                 C |-> compute_position_flow_checks(fnIn.df),
                 D |-> compute_risk_volatility_checks(fnIn.df, fnIn.spy),
                 E |-> score_environment("XLK", fnIn.df, fnIn.spy, EmptyTable,
                                         [sym \in {"XLK"} |-> 1])]
    /\ UNCHANGED <<fnIn, fetchVars, ratingVars, classifyVars, scoreVars, writeVars>>

C21_CorrelationNeutral ==
    (/\ fnOut.done
     /\ fnIn.df.len > 0
     /\ {"Close", "High", "Low"} \subseteq fnIn.df.cols
     /\ fnIn.df.ind.close # NaN) =>
        LET spy == fnIn.spy
            pairs == Min(fnIn.df.len, spy.len) - 1
            corr == fnIn.df.ind.corr
            score_corr == fnOut.D[3]
        IN IF spy.len = 0 \/ "Close" \notin spy.cols \/ pairs < 5
           THEN score_corr = 1
           ELSE score_corr = IF corr # NaN /\ 60 <= corr /\ corr <= 95 THEN 2
                             ELSE IF corr # NaN /\ 30 <= corr /\ corr < 60 THEN 1
                             ELSE 0

\* C22: for a symbol with sufficient history the Category C checks of the row
\* compute_scores produces are the Position & Flow scores that
\* compute_position_flow_checks returns for the symbol's table, only SI/Days
\* being fixed at neutral.
C22_CategoryCFromData ==
    (/\ fnOut.done
     /\ fnIn.df.cols # {}
     /\ fnIn.df.len >= 30
     /\ "Volume" \in fnIn.df.cols) =>
        /\ Len(fnOut.rows) = 1
        /\ fnOut.rows[1].symbol = "XLK"
        /\ NodeScores(fnOut.rows[1].categories["C"]) = fnOut.C
        /\ fnOut.C[6] = 1

(***************************************************************************)
(* mh_cli.main and mh_make_scores.main: passes that write the output file. *)
(***************************************************************************)
\* the passes of one watch session
MaxPass == 3

\* the pieces a payload reaches the file in
MaxChunks == 2

\* mh_cli is not run
WriteParked ==
    /\ outFile = [f \in {"out", "out_csv"} |-> [pass |-> -1, chunks |-> 0]]
    /\ wpc = "off"
    /\ passNo = 0
    /\ cliArgs = [watch |-> FALSE, out_csv |-> FALSE]

\* main is entered: each file holds the whole payload of an earlier run (pass 0)
\* or does not exist (pass -1)
WriteInit ==
    /\ \E old \in {[pass |-> -1, chunks |-> 0], [pass |-> 0, chunks |-> MaxChunks]} :
          outFile = [f \in {"out", "out_csv"} |-> old]
    /\ wpc = "compute"
    /\ passNo = 1
    /\ \E w, c \in BOOLEAN : cliArgs = [watch |-> w, out_csv |-> c]

\* _write_once, mh_cli.py lines 73-84: compute_scores returns and the payload is
\* serialised, or an error compute_scores lets through ends the process
ComputePass ==
    /\ wpc = "compute"
    /\ wpc' \in {"open", "raised"}
    /\ UNCHANGED <<outFile, passNo, cliArgs, fetchVars, ratingVars, classifyVars,
                   scoreVars, pureVars>>

\* lines 90 and 96: open(args.out, "w"), open(args.out_csv, "w") truncate the file
OpenOut ==
    /\ wpc \in {"open", "open_csv"}
    /\ LET f == IF wpc = "open" THEN "out" ELSE "out_csv"
       IN outFile' = [outFile EXCEPT ![f] = [pass |-> passNo, chunks |-> 0]]
    /\ wpc' = IF wpc = "open" THEN "write" ELSE "write_csv"
    /\ UNCHANGED <<passNo, cliArgs, fetchVars, ratingVars, classifyVars, scoreVars,
                   pureVars>>

\* lines 91 and 98, and json.dump of mh_make_scores.py line 22: the next piece
\* of the payload is written
WriteChunk ==
    /\ wpc \in {"write", "write_csv"}
    /\ LET f == IF wpc = "write" THEN "out" ELSE "out_csv"
       IN /\ outFile[f].chunks < MaxChunks
          /\ outFile' = [outFile EXCEPT ![f].chunks = @ + 1]
    /\ UNCHANGED <<wpc, passNo, cliArgs, fetchVars, ratingVars, classifyVars, scoreVars,
                   pureVars>>

\* a with block is left: the CSV comes next (line 94), or _write_once returns
\* and main returns (lines 109-111) or the loop sleeps (line 117)
CloseOut ==
    /\ wpc \in {"write", "write_csv"}
    /\ outFile[IF wpc = "write" THEN "out" ELSE "out_csv"].chunks = MaxChunks
    /\ wpc' = IF wpc = "write" /\ cliArgs.out_csv THEN "open_csv"
              ELSE IF cliArgs.watch THEN "sleep"
              ELSE "done"
    /\ UNCHANGED <<outFile, passNo, cliArgs, fetchVars, ratingVars, classifyVars,
                   scoreVars, pureVars>>

\* lines 115-117: the sleep ends and the loop starts the next pass
NextPass ==
    /\ wpc = "sleep"
    /\ passNo < MaxPass
    /\ passNo' = passNo + 1
    /\ wpc' = "compute"
    /\ UNCHANGED <<outFile, cliArgs, fetchVars, ratingVars, classifyVars, scoreVars,
                   pureVars>>

\* KeyboardInterrupt is raised where main is: an open file is closed with what
\* was written to it; lines 118-119 catch it in watch mode, in a single run
\* it ends the process
Interrupt ==
    /\ wpc \in {"compute", "open", "write", "open_csv", "write_csv", "sleep"}
    /\ wpc' = "stopped"
    /\ UNCHANGED <<outFile, passNo, cliArgs, fetchVars, ratingVars, classifyVars,
                   scoreVars, pureVars>>

\* C18: when the process is interrupted at any point, in watch mode or in a
\* single run, the output file holds the complete payload of a finished pass,
\* the previous one or the new one, never an empty or partly written payload
\* (or no file was written yet), and no further pass is started.
C18_InterruptKeepsFile ==
    wpc = "stopped" =>
        \/ outFile["out"].pass = -1
        \/ outFile["out"].pass \in 0..passNo /\ outFile["out"].chunks = MaxChunks

\* C17: for every SectorRow passed to render_pi_grid the value entered into the
\* cross-section, compared against the cut points and shown on the tile is the
\* row's total on the 0..100 scale, 100 * total / 72 rounded, so rows whose
\* totals round to different percentages get different scores.
C17_PercentScore ==
    uiPc = "shown" =>
        /\ Len(grid.evals) = Len(sectorRows)
        /\ \A k \in 1..Len(sectorRows) :
              /\ grid.evals[k].sym = sectorRows[k].symbol
              /\ grid.evals[k].pct = PyRound(100 * SectorRowTotal(sectorRows[k]), 72)

\* the two copies of the function, rating.py's and render_pi_grid's
BoundsReturned == {fnOut.bounds, fnOut.cut_points}

\* C14: under scheme hybrid with guard g every returned cut point i is the
\* quantile cut point i clamped into [fixed_i - g, fixed_i + g], fixed being
\* 20, 40, 60, 80; with g = 5 the result lies in [15,25] x [35,45] x [55,65] x
\* [75,85], also when all symbols have the same score.
C14_HybridClamp ==
    (fnOut.done /\ fnIn.scheme = "hybrid") =>
        \A b \in BoundsReturned :
            LET fixed == <<20, 40, 60, 80>>
                g == fnIn.guard
                qb == quantile_bounds(fnIn.scores, fnIn.qs)
            IN /\ Len(b) = 4
               /\ \A k \in 1..4 :
                     /\ qb[k] < fixed[k] - g => b[k] = fixed[k] - g
                     /\ qb[k] > fixed[k] + g => b[k] = fixed[k] + g
                     /\ (fixed[k] - g <= qb[k] /\ qb[k] <= fixed[k] + g) => b[k] = qb[k]
                     /\ g = 5 => (fixed[k] - 5 <= b[k] /\ b[k] <= fixed[k] + 5)

C14_Witness ==
    /\ fnOut.done
    /\ fnIn.scheme = "hybrid"
    /\ fnIn.guard = 5
    /\ fnIn.scores = <<50, 50, 50>>
    /\ BoundsReturned = {<<25, 45, 55, 75>>}

\* C15: under scheme quantile with a non-empty cross-section of n integer
\* scores the cut point for percentile p is the element of the ascending
\* cross-section at the index nearest to p/100*(n-1), so every cut point is one
\* of the scores and ascending percentiles give non-decreasing cut points;
\* with an empty cross-section the result is 20, 40, 60, 80.
C15_QuantileNearestRank ==
    (fnOut.done /\ fnIn.scheme = "quantile") =>
        \A b \in BoundsReturned :
            LET xs == CrossSection
                n == Len(xs)
            IN IF n = 0 THEN b = <<20, 40, 60, 80>>
               ELSE /\ Len(b) = 4
                    /\ \A k \in 1..4 :
                          /\ \E idx \in 0..(n - 1) :
                                /\ Abs(100 * idx - fnIn.qs[k] * (n - 1)) <= 50
                                /\ b[k] = xs[idx + 1]
                          /\ \E j \in 1..Len(fnIn.scores) : b[k] = fnIn.scores[j]
                    /\ \A j, k \in 1..4 : fnIn.qs[j] <= fnIn.qs[k] => b[j] <= b[k]

C15_Witness ==
    /\ fnOut.done
    /\ fnIn.scheme = "quantile"
    /\ fnIn.scores = <<100, 0, 50>>
    /\ fnIn.qs = <<25, 50, 75, 100>>
    /\ BoundsReturned = {<<0, 50, 100, 100>>}

\* C16: with scheme fixed the result is 20, 40, 60, 80 for every cross-section,
\* every quantile tuple and every guard.
C16_FixedIndependent ==
    (fnOut.done /\ fnIn.scheme = "fixed") => BoundsReturned = {<<20, 40, 60, 80>>}

C16_Witness ==
    /\ fnOut.done
    /\ fnIn.scheme = "fixed"
    /\ fnIn.scores = <<0, 100, 100>>
    /\ fnIn.qs = <<90, 70, 30, 10>>
    /\ fnIn.guard = 12
    /\ BoundsReturned = {<<20, 40, 60, 80>>}

(***************************************************************************)
(* Specifications                                                          *)
(***************************************************************************)
\* the state a specification starts in: the part it runs is entered, the
\* other parts are parked
InitOf(part) ==
    /\ FetchInit
    /\ IF part = "rating" THEN RatingInit ELSE RatingParked
    /\ IF part = "classify" THEN ClassifyInit ELSE ClassifyParked
    /\ IF part = "scores" THEN ScoresInit ELSE ScoresParked
    /\ CASE part = "ranking" -> RankingInit
         [] part = "bounds" -> BoundsInit
         [] part = "scorers" -> ScorersInit
         [] OTHER -> PureParked
    /\ IF part = "write" THEN WriteInit ELSE WriteParked

Init == InitOf("fetch")

Next ==
    \/ Tick
    \/ StartCall
    \/ CacheHit
    \/ CacheMiss
    \/ Attempt
    \/ Store
    \/ Return

\* safe_download and its cache
Spec == Init /\ [][Next]_vars

\* render_pi_grid called again and again by the watch loop
SpecRating ==
    /\ InitOf("rating")
    /\ [][RenderPiGrid]_vars

\* one classification of one score
SpecClassify ==
    /\ InitOf("classify")
    /\ [][Classify]_vars

\* one load of the dataset: live through compute_scores, or from a JSON file
SpecScores ==
    /\ InitOf("scores")
    /\ [][ComputeScores \/ LoadJson \/ BuildRows \/ RenderRows]_vars

\* one ranking of one list of sectors
SpecRanking ==
    /\ InitOf("ranking")
    /\ [][Rank]_vars

\* one choice of rating bounds for one cross-section
SpecBounds ==
    /\ InitOf("bounds")
    /\ [][ChooseBounds]_vars

\* the passes of mh_cli.main, one after the other, until interrupted
SpecWrite ==
    /\ InitOf("write")
    /\ [][ComputePass \/ OpenOut \/ WriteChunk \/ CloseOut \/ NextPass \/ Interrupt]_vars

\* one call of each category scorer on one table
SpecScorers ==
    /\ InitOf("scorers")
    /\ [][Score]_vars

====
